---- MODULE Spec2Model ----
(***************************************************************************)
(* Model of the backup lifecycle of BackupSystem (src/main.py,             *)
(* src/google_drive.py): BackupManager.create_backup, its retention sweep  *)
(* of the local directory and of the Google Drive folder,                  *)
(* BackupManager.restore_backup and GoogleDriveManager.get_latest_backup.  *)
(*                                                                         *)
(* Time is counted in ticks, TicksPerSec ticks to the second, so that a    *)
(* time stamp with a fraction of a second differs from its whole second.   *)
(* A file name is a pair <<stem, ext>>: the stem of a backup is the second *)
(* of the run's time stamp, the ext is what follows the first dot.         *)
(***************************************************************************)
EXTENDS Integers, Sequences, FiniteSets, TLC

VARIABLES cfg, now, local, remote, pc, run, rs, ev, nRuns, nTicks, nRestores,
          listing, latest, sched, op

vars == <<cfg, now, local, remote, pc, run, rs, ev, nRuns, nTicks, nRestores,
          listing, latest, sched, op>>

(***************************************************************************)
(* Bounds of the model.                                                    *)
(***************************************************************************)
MaxRuns == 2
MaxTicks == 2
TicksPerSec == 2
MaxValue == 1
MaxRestores == 1
MaxListing == 3
MaxOps == 2

(***************************************************************************)
(* Program constants: the lengths of the retention units.                  *)
(***************************************************************************)
SecondsPerMinute == 60
SecondsPerHour == 3600
SecondsPerDay == 86400

(***************************************************************************)
(* Names and files.                                                        *)
(***************************************************************************)
NoPath == <<>>

\* Path.suffix: the text after the last dot.
Suffix(name) ==
    IF name[2] = "sql.gz" THEN "gz"
    ELSE IF name[2] \in {"sql.zip", "zip"} THEN "zip"
    ELSE name[2]

\* Path.with_suffix(""): the name without its last suffix.
WithSuffixRemoved(name) ==
    IF name[2] \in {"sql.gz", "sql.zip"} THEN <<name[1], "sql">>
    ELSE <<name[1], "">>

\* glob("*.sql.gz") and title.endswith(".sql.gz")
EndsWithSqlGz(name) == name[2] = "sql.gz"

\* name.endswith(".sql") of a zip entry
EndsWithSql(name) == name[2] = "sql"

\* files without the file called name
Unlink(files, name) == [n \in DOMAIN files \ {name} |-> files[n]]

\* files with the file called name (over)written
WriteFile(files, name, rec) == (name :> rec) @@ files

File(mtime, fmt, data, entry) ==
    [mtime |-> mtime, fmt |-> fmt, data |-> data, entry |-> entry]

\* A raw dump and a zip archive without any .sql entry, put in the backup
\* directory by the operator.
ManualSql == <<0 - 1, "sql">>
ManualZip == <<0 - 1, "zip">>
MissingName == <<0 - 2, "sql.gz">>
\* An artifact of an earlier life of the process.
OldBackup == <<0 - 3, "sql.gz">>

(***************************************************************************)
(* Configuration (BackupSettings.json): read once, at construction.        *)
(***************************************************************************)
Compressions == {"gzip", "zip", "bzip2"}
TemplateExts == {"sql.gz", "sql.zip"}
RetentionValues == (0 - 1) .. MaxValue

\* gdrive: "off" gdrive_manager is None; "noinit" the manager exists and its
\* drive is None (initialization failed); "ok" the drive is usable.
BaseRetention == [unit |-> "hours", value |-> 1]

Configs ==
    { c \in [compression : Compressions, ext : TemplateExts,
             lret : [unit : {"hours", "weeks"}, value : RetentionValues],
             gdrive : {"off", "noinit", "ok"},
             gret : [unit : {"minutes", "days", "weeks"}, value : 1 .. MaxValue]] :
        /\ (c.compression = "bzip2" => c.ext = "sql.gz")
        /\ (c.compression = "gzip" => c.ext = "sql.gz")
        /\ (c.lret.unit = "weeks" => c.lret.value = 1)
        /\ (c.gret.unit \in {"days", "weeks"} => c.gret.value = 1)
        /\ (c.gdrive # "ok" => c.gret = [unit |-> "days", value |-> 1])
        /\ (c.compression # "gzip" \/ c.lret # BaseRetention =>
              c.gdrive # "noinit"
              /\ (c.gdrive = "ok" =>
                    \/ c.gret.unit = "minutes"
                    \/ /\ c.gret.unit = "weeks" /\ c.compression = "gzip"
                       /\ c.lret = [unit |-> "hours", value |-> 0]))
        /\ (c.compression # "gzip" => c.lret = BaseRetention) }

LocalRetention == cfg.lret
GdriveRetention == cfg.gret
GdriveManager == cfg.gdrive # "off"
DriveReady == cfg.gdrive = "ok"

(***************************************************************************)
(* RetentionPolicy                                                         *)
(***************************************************************************)
\* timedelta(minutes|hours|days = value), in ticks; defined for the three
\* units the code knows.
Timedelta(retention) ==
    IF retention.unit = "minutes"
    THEN retention.value * SecondsPerMinute * TicksPerSec
    ELSE IF retention.unit = "hours"
    THEN retention.value * SecondsPerHour * TicksPerSec
    ELSE retention.value * SecondsPerDay * TicksPerSec

\* the units _calculate_cutoff_time and _parse_interval know
ValidUnit(retention) == retention.unit \in {"minutes", "hours", "days"}

\* _calculate_cutoff_time: raises ValueError on any other unit.
CalculateCutoffTime(retention, clock) ==
    IF retention.unit \in {"minutes", "hours", "days"}
    THEN [raised |-> FALSE, cutoff |-> clock - Timedelta(retention)]
    ELSE [raised |-> TRUE, cutoff |-> 0]

\* file_time < cutoff
IsExpired(file_time, cutoff) == file_time < cutoff

\* datetime.strptime(file["modifiedDate"][:19], ...): the first 19 characters
\* of the time stamp, that is, its whole seconds.
ParseModifiedDate(mtime) == (mtime \div TicksPerSec) * TicksPerSec

\* datetime.fromtimestamp(st_mtime)
FromTimestamp(mtime) == mtime

\* The for loop of a sweep over the files in the order the tier lists them:
\* the first delete that raises ends the loop.  order is a sequence of
\* [key, time]; bad holds the keys whose delete raises.
RECURSIVE SweepLoop(_, _, _)
SweepLoop(order, cutoff, bad) ==
    IF order = <<>> THEN [deleted |-> {}, aborted |-> FALSE]
    ELSE LET f == Head(order) IN
         IF IsExpired(f.time, cutoff)
         THEN IF f.key \in bad
              THEN [deleted |-> {}, aborted |-> TRUE]
              ELSE LET r == SweepLoop(Tail(order), cutoff, bad)
                   IN  [deleted |-> {f.key} \cup r.deleted, aborted |-> r.aborted]
         ELSE SweepLoop(Tail(order), cutoff, bad)

\* every order in which a tier may list the members of S
Orders(S) ==
    { s \in [1 .. Cardinality(S) -> S] :
        \A i, j \in 1 .. Cardinality(S) : i # j => s[i] # s[j] }

\* the sets of at most one member of S
AtMostOne(S) == {{}} \cup {{x} : x \in S}

NoSweep == [status |-> "none", cutoff |-> 0, cand |-> {}, deleted |-> {}, bad |-> {}]

\* the files glob("*.sql.gz") yields, each with its st_mtime
LocalCandidates(files) ==
    { [key |-> n, time |-> FromTimestamp(files[n].mtime), mtime |-> files[n].mtime] :
        n \in {m \in DOMAIN files : EndsWithSqlGz(m)} }

\* the files of the folder whose title ends with .sql.gz, each with the
\* time the sweep reads from its modifiedDate
RemoteCandidates(files) ==
    { [key |-> f, time |-> ParseModifiedDate(f.mtime), mtime |-> f.mtime] :
        f \in {g \in files : EndsWithSqlGz(g.title)} }

\* _delete_old_files, after its cutoff: the try block around the loop
DeleteOldFiles(cand, cutoff, order, bad) ==
    LET r == SweepLoop(order, cutoff, bad)
    IN  [status |-> IF r.aborted THEN "aborted" ELSE "done",
         cutoff |-> cutoff, cand |-> cand, deleted |-> r.deleted, bad |-> bad]

(***************************************************************************)
(* State after construction.                                               *)
(***************************************************************************)
NoRun ==
    [id |-> 0, ts |-> 0, name |-> NoPath, sql |-> NoPath, dump |-> "none",
     comp |-> "none", upload |-> "none", lsweep |-> NoSweep, rsweep |-> NoSweep,
     at |-> 0, result |-> NoPath, raised |-> FALSE,
     cmd |-> [outcome |-> "none", raised |-> FALSE, ok |-> FALSE],
     before |-> [local |-> <<>>, remote |-> {}]]

NoRestore ==
    [ref |-> <<"none">>, consulted |-> FALSE, title |-> NoPath, path |-> NoPath,
     had |-> FALSE, file |-> File(0, "raw", 0, NoPath), temp |-> NoPath,
     cmd |-> NoPath, cmdFile |-> File(0, "raw", 0, NoPath), result |-> "none",
     list |-> <<>>, fault |-> "none"]

\* the scheduler before start_scheduler is called
NoSched ==
    [at |-> "off", unit |-> "minutes", value |-> 1, next_run |-> 0, started |-> 0,
     last_done |-> 0, overlap |-> FALSE]

\* no operation of the GoogleDriveManager has been called
NoOp ==
    [name |-> "none", n |-> 0, ok |-> FALSE, called |-> FALSE, value |-> NoPath,
     before |-> <<>>, flag |-> FALSE, init_failed |-> FALSE]

RemoteFile(title, mtime, f) ==
    [title |-> title, mtime |-> mtime, fmt |-> f.fmt, data |-> f.data, entry |-> f.entry]

InitLocal ==
    (ManualSql :> File(0, "raw", 0, NoPath)) @@
    (ManualZip :> File(0, "zip", 0, NoPath)) @@
    (OldBackup :> File(0, "gzip", 0, NoPath))

InitRemote ==
    IF DriveReady THEN {RemoteFile(OldBackup, 0, File(0, "gzip", 0, NoPath))} ELSE {}

Init ==
    /\ cfg \in Configs
    /\ now = 0
    /\ local = InitLocal
    /\ remote = InitRemote
    /\ pc = "idle"
    /\ run = NoRun
    /\ rs = NoRestore
    /\ ev = "init"
    /\ nRuns = 0
    /\ nTicks = 0
    /\ nRestores = 0
    /\ listing = <<>>
    /\ latest = NoPath
    /\ sched = NoSched
    /\ op = NoOp

(***************************************************************************)
(* The clock.  Time passes between the calls, by one tick, by the length   *)
(* of a configured retention window or by one tick more, and by one tick   *)
(* between the compression and the retention step of a run.                *)
(***************************************************************************)
Windows ==
    {Timedelta(r) : r \in {x \in {cfg.lret, cfg.gret} :
                             x.unit \in {"minutes", "hours", "days"} /\ x.value > 0}}

Deltas == {1} \cup Windows \cup {w + 1 : w \in Windows}

\* The record of a finished call describes the state right after it.
Forget(r) == IF pc = "idle" THEN NoRun ELSE r

Tick ==
    /\ nTicks < MaxTicks
    /\ pc \in {"idle", "retaining"}
    /\ \E d \in (IF pc = "idle" THEN Deltas ELSE {1}) : now' = now + d
    /\ nTicks' = nTicks + 1
    /\ ev' = "tick"
    /\ run' = Forget(run)
    /\ rs' = NoRestore
    /\ UNCHANGED <<cfg, local, remote, pc, nRuns, nRestores, listing, latest, sched, op>>

(***************************************************************************)
(* create_backup                                                           *)
(***************************************************************************)
\* a create_backup without its finally clause
CbReturnKeepsDump(files, r, result) ==
    /\ local' = files
    /\ run' = [r EXCEPT !.result = result]
    /\ pc' = "idle"
    /\ ev' = "cb_return"

\* The end of create_backup: the value returned, after the finally clause
\* has removed the raw dump.
CbReturn(files, r, result) ==
    /\ local' = Unlink(files, r.sql)
    /\ run' = [r EXCEPT !.result = result]
    /\ pc' = "idle"
    /\ ev' = "cb_return"

\* backup_dir.mkdir, the time stamp and the names; mkdir is outside the try
\* block, so its error leaves create_backup as an exception.
CbBegin ==
    /\ pc = "idle"
    /\ nRuns < MaxRuns
    /\ nRuns' = nRuns + 1
    /\ LET ts == now \div TicksPerSec
           r  == [NoRun EXCEPT !.id = nRuns + 1, !.ts = ts,
                               !.name = <<ts, cfg.ext>>, !.sql = <<ts, "sql">>,
                               !.before = [local |-> local, remote |-> remote]]
       IN  \E mkdirOk \in BOOLEAN :
             IF mkdirOk
             THEN /\ run' = r
                  /\ pc' = "dumping"
                  /\ ev' = "cb_start"
             ELSE /\ run' = [r EXCEPT !.raised = TRUE]
                  /\ pc' = "idle"
                  /\ ev' = "cb_raised"
    /\ rs' = NoRestore
    /\ UNCHANGED <<cfg, now, local, remote, nTicks, nRestores, listing, latest, op>>

\* create_backup called once, by the run-once command
CbStart == CbBegin /\ UNCHANGED sched

\* a _run_command that reports every outcome as a success
RunCommandAlwaysOk(outcome) == [outcome |-> outcome, raised |-> FALSE, ok |-> TRUE]

\* _run_command: subprocess.run(check=True) in a try block that catches
\* CalledProcessError only.  The process exits with status zero, exits with
\* another status, or cannot be started (the binary is missing).
RunCommand(outcome) ==
    IF outcome = "exit0" THEN [outcome |-> outcome, raised |-> FALSE, ok |-> TRUE]
    ELSE IF outcome = "nonzero" THEN [outcome |-> outcome, raised |-> FALSE, ok |-> FALSE]
    ELSE [outcome |-> outcome, raised |-> TRUE, ok |-> FALSE]

\* pg_dump through _run_command: on a non-zero exit create_backup returns
\* None, and so it does, through its except clause, when _run_command raises;
\* a dump that fails may have left a part of its output file.
CbDump ==
    /\ pc = "dumping"
    /\ \E outcome \in {"ok", "fail", "fail_partial", "nostart"} :
         LET c == RunCommand(IF outcome = "ok" THEN "exit0"
                             ELSE IF outcome = "nostart" THEN "nostart" ELSE "nonzero")
         IN  IF ~c.raised /\ c.ok
             THEN /\ local' = WriteFile(local, run.sql, File(now, "raw", run.id, NoPath))
                  /\ run' = [run EXCEPT !.dump = "ok", !.cmd = c]
                  /\ pc' = "compressing"
                  /\ ev' = "cb_dump"
             ELSE CbReturn(IF outcome = "fail_partial"
                           THEN WriteFile(local, run.sql, File(now, "partial", run.id, NoPath))
                           ELSE local,
                           [run EXCEPT !.dump = IF c.raised THEN "raised" ELSE "fail",
                                       !.cmd = c],
                           NoPath)
    /\ UNCHANGED <<cfg, now, remote, rs, nRuns, nTicks, nRestores, listing, latest, sched, op>>

\* What _compress_file can do: with an unsupported format it raises before
\* it opens anything; otherwise it may fail before the output file exists
\* or after it has been opened.
CompressOutcomes(compression) ==
    IF compression \in {"gzip", "zip"}
    THEN {"ok", "open_fail", "write_fail"}
    ELSE {"unsupported"}

\* gzip.open(output_path, "wb") and ZipFile(output_path, "w"): the output
\* file exists, with a part of its content, from the moment it is opened
\* to the moment it is closed
CbOpenOutput ==
    /\ pc = "compressing"
    /\ cfg.compression \in {"gzip", "zip"}
    /\ run.sql \in DOMAIN local
    /\ local' = WriteFile(local, run.name, File(now, "partial", run.id, NoPath))
    /\ pc' = "writing"
    /\ ev' = "cb_open"
    /\ UNCHANGED <<cfg, now, remote, run, rs, nRuns, nTicks, nRestores, listing, latest,
                   sched, op>>

\* _compress_file: the local files after it.  gzip writes the dump as one
\* stream; zip writes one entry called after the raw file.  An input that
\* was unlinked after it was opened is still read: the output, open since
\* then, stands for it.
CompressFile(files, compression, input, output, outcome, clock) ==
    LET data == IF input \in DOMAIN files THEN files[input].data ELSE files[output].data
    IN  IF outcome = "ok"
        THEN WriteFile(files, output,
                       File(clock, compression, data,
                            IF compression = "zip" THEN input ELSE NoPath))
        ELSE IF outcome = "write_fail"
        THEN WriteFile(files, output, File(clock, "partial", data, NoPath))
        ELSE files

\* a create_backup that goes on whatever _compress_file returned
CompressSucceededAlways(outcome) == TRUE

\* success, error = self._compress_file(...); if not success: return None
CompressSucceeded(outcome) == outcome = "ok"

\* the compression step, then compressed_file.exists() and sql_file.unlink
CbCompress ==
    /\ pc \in {"compressing", "writing"}
    /\ \E outcome \in (IF pc = "writing" THEN {"ok", "write_fail"}
                       ELSE IF run.sql \notin DOMAIN local
                       THEN CompressOutcomes(cfg.compression) \ {"ok", "write_fail"}
                       ELSE CompressOutcomes(cfg.compression)) :
         LET files == CompressFile(local, cfg.compression, run.sql, run.name, outcome, now)
             r     == [run EXCEPT !.comp = outcome, !.at = now]
         IN  IF ~CompressSucceeded(outcome)
             THEN CbReturn(files, r, NoPath)
             ELSE IF run.name \in DOMAIN files
             THEN /\ local' = Unlink(files, run.sql)
                  /\ run' = r
                  /\ pc' = IF GdriveManager THEN "distributing" ELSE "retaining"
                  /\ ev' = "cb_compress"
             ELSE CbReturn(files, r, NoPath)
    /\ UNCHANGED <<cfg, now, remote, rs, nRuns, nTicks, nRestores, listing, latest, sched, op>>

\* upload_file: False without a drive, when the folder cannot be had and
\* when the upload raises; otherwise the folder holds a new file.
UploadFile(files, title, f, driveOk, callOk, clock) ==
    IF driveOk /\ callOk
    THEN [ok |-> TRUE, files |-> files \cup {RemoteFile(title, clock, f)}]
    ELSE [ok |-> FALSE, files |-> files]

CbUpload ==
    /\ pc = "distributing"
    /\ \E callOk \in BOOLEAN :
         LET u == UploadFile(remote, run.name, local[run.name], DriveReady, callOk, now)
         IN  /\ remote' = u.files
             /\ run' = [run EXCEPT !.upload = IF u.ok THEN "ok" ELSE "fail"]
    /\ pc' = "retaining"
    /\ ev' = "cb_upload"
    /\ UNCHANGED <<cfg, now, local, rs, nRuns, nTicks, nRestores, listing, latest, sched, op>>

\* _cleanup_old_backups, its local part.  The cutoff is computed before the
\* try block of _delete_old_files: its ValueError ends _cleanup_old_backups.
CbRetainLocal ==
    /\ pc = "retaining"
    /\ LET c == CalculateCutoffTime(LocalRetention, now)
       IN  IF c.raised
           THEN /\ CbReturn(local, [run EXCEPT !.lsweep = [NoSweep EXCEPT !.status = "raised"]],
                            run.name)
                /\ UNCHANGED remote
           ELSE \E order \in Orders(LocalCandidates(local)),
                   bad \in AtMostOne({x.key : x \in {y \in LocalCandidates(local) :
                                                         IsExpired(y.time, c.cutoff)}}) :
                  LET s     == DeleteOldFiles(LocalCandidates(local), c.cutoff, order, bad)
                      files == [n \in DOMAIN local \ s.deleted |-> local[n]]
                      r     == [run EXCEPT !.lsweep = s]
                  IN  IF GdriveManager
                      THEN /\ local' = files
                           /\ run' = r
                           /\ pc' = "retaining_remote"
                           /\ ev' = "cb_sweep"
                           /\ UNCHANGED remote
                      ELSE /\ CbReturn(files, r, run.name)
                           /\ UNCHANGED remote
    /\ UNCHANGED <<cfg, now, rs, nRuns, nTicks, nRestores, listing, latest, sched, op>>

\* get_folder: the folder, or None when the listing or the creation of the
\* folder raises; without a drive self.drive.ListFile raises before any
\* call is made.
GetFolder(driveOk, callOk) == [folder |-> driveOk /\ callOk, called |-> driveOk]

\* the keys of the candidates a sweep with this window would delete
ExpiredKeys(cand, retention, clock) ==
    {x.key : x \in {y \in cand :
                      IsExpired(y.time, CalculateCutoffTime(retention, clock).cutoff)}}

\* _cleanup_gdrive_backups: everything is inside its try block; it returns
\* without a sweep when the folder cannot be had.
CleanupGdriveBackups(files, retention, clock, driveOk, callOk, order, bad) ==
    LET c == CalculateCutoffTime(retention, clock)
    IN  IF c.raised
        THEN [files |-> files, sweep |-> [NoSweep EXCEPT !.status = "raised"]]
        ELSE IF ~GetFolder(driveOk, callOk).folder
        THEN [files |-> files, sweep |-> [NoSweep EXCEPT !.status = "nofolder"]]
        ELSE LET s == DeleteOldFiles(RemoteCandidates(files), c.cutoff, order, bad)
             IN  [files |-> files \ s.deleted, sweep |-> s]

CbRetainRemote ==
    /\ pc = "retaining_remote"
    /\ \E folderOk \in BOOLEAN,
          order \in Orders(RemoteCandidates(remote)),
          bad \in AtMostOne(ExpiredKeys(RemoteCandidates(remote), GdriveRetention, now)) :
         LET c == CleanupGdriveBackups(remote, GdriveRetention, now, DriveReady, folderOk,
                                       order, bad)
         IN  /\ remote' = c.files
             /\ CbReturn(local, [run EXCEPT !.rsweep = c.sweep], run.name)
    /\ UNCHANGED <<cfg, now, rs, nRuns, nTicks, nRestores, listing, latest, sched, op>>

(***************************************************************************)
(* GoogleDriveManager.get_latest_backup and download_file                  *)
(***************************************************************************)
\* t with x put behind every file whose modifiedDate is not earlier
RECURSIVE InsertByDate(_, _)
InsertByDate(x, t) ==
    IF t = <<>> THEN <<x>>
    ELSE IF Head(t).mtime >= x.mtime THEN <<Head(t)>> \o InsertByDate(x, Tail(t))
    ELSE <<x>> \o t

\* backup_files.sort(key=modifiedDate, reverse=True): the sort is stable,
\* files of one modifiedDate keep the order of the listing.
RECURSIVE SortByDateDesc(_)
SortByDateDesc(s) ==
    IF s = <<>> THEN <<>>
    ELSE InsertByDate(s[Len(s)], SortByDateDesc(SubSeq(s, 1, Len(s) - 1)))

\* [f for f in file_list if f["title"].endswith(".sql.gz")]
BackupFiles(file_list) == SelectSeq(file_list, LAMBDA f : EndsWithSqlGz(f.title))

\* get_latest_backup without its sort: the first listed backup file
GetLatestBackupUnsorted(driveOk, folderOk, file_list) ==
    IF ~driveOk \/ ~folderOk \/ file_list = <<>> THEN NoPath
    ELSE LET backup_files == BackupFiles(file_list)
         IN  IF backup_files # <<>> THEN backup_files[1].title ELSE NoPath

\* get_latest_backup: None without a drive, without the folder, on an empty
\* listing and when no title ends with .sql.gz.
GetLatestBackup(driveOk, folderOk, file_list) ==
    IF ~driveOk \/ ~folderOk \/ file_list = <<>> THEN NoPath
    ELSE LET backup_files == SortByDateDesc(BackupFiles(file_list))
         IN  IF backup_files # <<>> THEN backup_files[1].title ELSE NoPath

\* download_file: the first file of the folder with the title is written to
\* local_dir/title; None without a drive, on an error and when no file has
\* the title.
DownloadFile(title, files, file_list, driveOk, callOk, clock) ==
    LET found == SelectSeq(file_list, LAMBDA f : f.title = title)
    IN  IF driveOk /\ callOk /\ found # <<>>
        THEN [path |-> title,
              files |-> WriteFile(files, title,
                                  File(clock, found[1].fmt, found[1].data, found[1].entry))]
        ELSE [path |-> NoPath, files |-> files]

(***************************************************************************)
(* restore_backup                                                          *)
(***************************************************************************)
\* A reference is <<"none">> (None), <<"empty">> (the empty string) or
\* <<"path", name>>.
RefPath(ref) == IF ref[1] = "path" THEN ref[2] ELSE NoPath

\* "not backup_file" in the place of "backup_file is None"
UsesLatestIfFalsy(ref, manager) == ref \in {<<"none">>, <<"empty">>} /\ manager

\* backup_file is None and self.gdrive_manager
UsesLatest(ref, manager) == ref = <<"none">> /\ manager

\* lines 315-325: the artifact the call works on
ResolveArtifact(ref, files, file_list, fault, clock) ==
    IF UsesLatest(ref, GdriveManager)
    THEN LET title == GetLatestBackup(DriveReady, fault # "folder", file_list)
         IN  IF title # NoPath
             THEN LET d == DownloadFile(title, files, file_list, DriveReady,
                                        fault \notin {"folder", "download"}, clock)
                  IN  [consulted |-> TRUE, title |-> title, path |-> d.path,
                       files |-> d.files]
             ELSE [consulted |-> TRUE, title |-> NoPath, path |-> NoPath, files |-> files]
    ELSE [consulted |-> FALSE, title |-> NoPath, path |-> RefPath(ref), files |-> files]

\* temp_sql_file before its first assignment
Unbound == <<"unbound">>

\* lines 338-356: the format is read from the suffix.  gzip: the raw file
\* is opened for writing, then the stream is read.  zip: the first entry
\* whose name ends with .sql is extracted beside the archive.  Anything
\* else is taken as the raw file itself.
Decompress(files, path, fault, clock) ==
    LET f == files[path]
    IN  IF Suffix(path) = "gz"
        THEN LET temp == WithSuffixRemoved(path)
             IN  IF f.fmt = "gzip" /\ fault # "extract"
                 THEN [temp |-> temp, raised |-> FALSE,
                       files |-> WriteFile(files, temp, File(clock, "raw", f.data, NoPath))]
                 ELSE [temp |-> temp, raised |-> TRUE,
                       files |-> WriteFile(files, temp, File(clock, "partial", f.data, NoPath))]
        ELSE IF Suffix(path) = "zip"
        THEN IF f.fmt # "zip"
             THEN [temp |-> NoPath, raised |-> TRUE, files |-> files]
             ELSE IF f.entry # NoPath /\ EndsWithSql(f.entry)
             THEN IF fault # "extract"
                  THEN [temp |-> f.entry, raised |-> FALSE,
                        files |-> WriteFile(files, f.entry, File(clock, "raw", f.data, NoPath))]
                  ELSE [temp |-> f.entry, raised |-> TRUE,
                        files |-> WriteFile(files, f.entry,
                                            File(clock, "partial", f.data, NoPath))]
             ELSE [temp |-> NoPath, raised |-> FALSE, files |-> files]
        ELSE [temp |-> path, raised |-> FALSE, files |-> files]

\* a finally clause that removes nothing
RestoreFinallyKeeps(files, temp) ==
    IF temp = Unbound THEN [raised |-> TRUE, files |-> files]
    ELSE [raised |-> FALSE, files |-> files]

\* the finally clause: temp_sql_file is read, and removed if it exists;
\* reading it before its first assignment raises UnboundLocalError.
RestoreFinally(files, temp) ==
    IF temp = Unbound THEN [raised |-> TRUE, files |-> files]
    ELSE IF temp # NoPath /\ temp \in DOMAIN files
    THEN [raised |-> FALSE, files |-> Unlink(files, temp)]
    ELSE [raised |-> FALSE, files |-> files]

\* the value the caller gets: an exception of the finally clause replaces
\* the value being returned
Returned(value, fin) == IF fin.raised THEN "raised" ELSE value

\* restore_backup as a whole: the local files after it and its record
RestoreBackup(ref, file_list, fault, clock) ==
    LET a    == ResolveArtifact(ref, local, file_list, fault, clock)
        base == [NoRestore EXCEPT !.ref = ref, !.consulted = a.consulted,
                                  !.title = a.title, !.path = a.path,
                                  !.list = file_list, !.fault = fault]
    IN  IF a.path = NoPath \/ a.path \notin DOMAIN a.files
        THEN LET fin == RestoreFinally(a.files, Unbound)
             IN  [files |-> fin.files,
                  rs |-> [base EXCEPT !.result = Returned("False", fin)]]
        ELSE LET d    == Decompress(a.files, a.path, fault, clock)
                 had  == [base EXCEPT !.had = TRUE, !.file = a.files[a.path],
                                      !.temp = d.temp]
                 fin  == RestoreFinally(d.files, d.temp)
             IN  IF d.raised \/ d.temp = NoPath \/ d.temp \notin DOMAIN d.files
                 THEN [files |-> fin.files,
                       rs |-> [had EXCEPT !.result = Returned("False", fin)]]
                 ELSE [files |-> fin.files,
                       rs |-> [had EXCEPT !.cmd = d.temp, !.cmdFile = d.files[d.temp],
                                          !.result = Returned(IF fault = "psql" THEN "False"
                                                              ELSE "True", fin)]]

RestoreDone(o) ==
    /\ local' = o.files
    /\ rs' = o.rs
    /\ run' = NoRun
    /\ ev' = "restore"
    /\ UNCHANGED <<cfg, now, remote, pc, nRuns, nTicks, listing, latest, sched, op>>

\* restore_backup() of the command line's --use-gdrive
RestoreLatest ==
    /\ pc = "idle"
    /\ nRestores < MaxRestores
    /\ nRestores' = nRestores + 1
    /\ \E file_list \in Orders(remote),
          fault \in {"none", "folder", "download", "extract", "psql"} :
         RestoreDone(RestoreBackup(<<"none">>, file_list, fault, now))

\* restore_backup(file) with a reference: the empty string, a file of the
\* backup directory or a path that does not exist
RestoreFile ==
    /\ pc = "idle"
    /\ nRestores < MaxRestores
    /\ nRestores' = nRestores + 1
    /\ \E ref \in {<<"empty">>} \cup {<<"path", n>> : n \in DOMAIN local \cup {MissingName}},
          file_list \in Orders(remote),
          fault \in {"none", "extract", "psql"} :
         RestoreDone(RestoreBackup(ref, file_list, fault, now))

Next ==
    \/ Tick
    \/ CbStart
    \/ CbDump
    \/ CbCompress
    \/ CbUpload
    \/ CbRetainLocal
    \/ CbRetainRemote
    \/ RestoreLatest
    \/ RestoreFile

Spec == Init /\ [][Next]_vars

(***************************************************************************)
(* create_backup on its own: runs of create_backup, one after the other   *)
(* or a tick apart, with the default local window, started when the        *)
(* artifact of the earlier life of the process is older than that window.  *)
(***************************************************************************)
\* the clock moves by one tick
ShortTick == Tick /\ now' = now + 1

InitRun ==
    /\ cfg \in {c \in Configs : c.lret = BaseRetention /\ c.gret.unit # "weeks"}
    /\ now = Timedelta(BaseRetention) + 1
    /\ local = InitLocal
    /\ remote = InitRemote
    /\ pc = "idle"
    /\ run = NoRun
    /\ rs = NoRestore
    /\ ev = "init"
    /\ nRuns = 0
    /\ nTicks = 0
    /\ nRestores = 0
    /\ listing = <<>>
    /\ latest = NoPath
    /\ sched = NoSched
    /\ op = NoOp

NextRun ==
    \/ ShortTick
    \/ CbStart
    \/ CbDump
    \/ CbCompress
    \/ CbUpload
    \/ CbRetainLocal
    \/ CbRetainRemote

SpecRun == InitRun /\ [][NextRun]_vars

(***************************************************************************)
(* start_scheduler: one thread that calls create_backup, arms the job and  *)
(* then loops over schedule.run_pending() and time.sleep(1).  sched.at is  *)
(* the place of that thread: "first" and "job" inside a create_backup      *)
(* call, "loop" before run_pending, "sleep" before the sleep, "crashed"    *)
(* when an exception has left start_scheduler and "stopped" when the       *)
(* except clause of the loop has caught one and the loop has ended.        *)
(***************************************************************************)
\* the period of the job: schedule.every(value).minutes, .hours or .days
Period(s) == Timedelta([unit |-> s.unit, value |-> s.value])

\* Job._schedule_next_run, called when the job is armed and after each run:
\* the next run is one period after the present time
ScheduleNextRun(next_run, clock, period) == clock + period

\* a loop that goes on without waiting for the job
JobReturnedAtOnce(p) == TRUE

\* schedule.run_pending() calls the job and returns when the job has returned
JobReturned(p) == p = "idle"

\* Job.should_run
ShouldRun(s, clock) == clock >= s.next_run

\* line 447: the first create_backup, outside every try block
SchedFirstRun ==
    /\ sched.at = "off"
    /\ CbBegin
    /\ sched' = [sched EXCEPT !.at = IF ev' = "cb_raised" THEN "crashed" ELSE "first",
                              !.started = now]

\* lines 450-451: the first create_backup has returned; _parse_interval
\* raises on an unknown unit, job.do arms the job
SchedArm ==
    /\ sched.at = "first"
    /\ JobReturned(pc)
    /\ sched' = IF sched.unit \in {"minutes", "hours", "days"}
                THEN [sched EXCEPT !.at = "loop", !.last_done = now,
                                   !.next_run = ScheduleNextRun(now, now, Period(sched))]
                ELSE [sched EXCEPT !.at = "crashed", !.last_done = now]
    /\ ev' = "sched_arm"
    /\ UNCHANGED <<cfg, now, local, remote, pc, run, rs, nRuns, nTicks, nRestores,
                   listing, latest, op>>

\* line 455: run_pending runs the job when it is due; an exception of the
\* job leaves run_pending and ends the loop in the except clause of line 459
SchedRunPending ==
    /\ sched.at = "loop"
    /\ IF ~ShouldRun(sched, now)
       THEN /\ sched' = [sched EXCEPT !.at = "sleep"]
            /\ ev' = "sched_idle"
            /\ UNCHANGED <<cfg, now, local, remote, pc, run, rs, nRuns, nTicks, nRestores,
                           listing, latest, op>>
       ELSE IF pc = "idle"
       THEN /\ CbBegin
            /\ sched' = [sched EXCEPT !.at = IF ev' = "cb_raised" THEN "stopped" ELSE "job",
                                      !.started = now]
       ELSE /\ sched' = [sched EXCEPT !.overlap = TRUE, !.at = "sleep"]
            /\ ev' = "sched_overlap"
            /\ UNCHANGED <<cfg, now, local, remote, pc, run, rs, nRuns, nTicks, nRestores,
                           listing, latest, op>>

\* the job has returned: Job.run sets last_run and schedules the next run
SchedJobDone ==
    /\ sched.at = "job"
    /\ JobReturned(pc)
    /\ sched' = [sched EXCEPT !.at = "sleep", !.last_done = now,
                              !.next_run = ScheduleNextRun(sched.next_run, now, Period(sched))]
    /\ ev' = "sched_done"
    /\ UNCHANGED <<cfg, now, local, remote, pc, run, rs, nRuns, nTicks, nRestores,
                   listing, latest, op>>

\* line 456: time.sleep(1); the sleeps of the iterations in which no job is
\* due are taken as one
SchedSleep ==
    /\ sched.at = "sleep"
    /\ nTicks < MaxTicks
    /\ nTicks' = nTicks + 1
    /\ \E d \in {TicksPerSec}
                 \cup (IF sched.next_run > now THEN {sched.next_run - now} ELSE {}) :
         now' = now + d
    /\ sched' = [sched EXCEPT !.at = "loop"]
    /\ ev' = "sched_sleep"
    /\ run' = Forget(run)
    /\ UNCHANGED <<cfg, local, remote, pc, rs, nRuns, nRestores, listing, latest, op>>

\* a step of create_backup takes time: a tick, one period or more than two
RunTakes ==
    /\ pc # "idle"
    /\ nTicks < MaxTicks
    /\ nTicks' = nTicks + 1
    /\ \E d \in {1, Period(sched), 2 * Period(sched) + 1} : now' = now + d
    /\ ev' = "tick"
    /\ UNCHANGED <<cfg, local, remote, pc, run, rs, nRuns, nRestores, listing, latest,
                   sched, op>>

InitSched ==
    /\ cfg \in {c \in Configs : c.compression = "gzip" /\ c.lret = BaseRetention
                                /\ c.gret.unit = "minutes" /\ c.gdrive # "noinit"}
    /\ now = 0
    /\ local = InitLocal
    /\ remote = InitRemote
    /\ pc = "idle"
    /\ run = NoRun
    /\ rs = NoRestore
    /\ ev = "init"
    /\ nRuns = 0
    /\ nTicks = 0
    /\ nRestores = 0
    /\ listing = <<>>
    /\ latest = NoPath
    /\ sched \in {[NoSched EXCEPT !.unit = u, !.value = v] :
                    u \in {"minutes", "weeks"}, v \in 1 .. MaxValue}
    /\ op = NoOp

NextSched ==
    \/ SchedFirstRun
    \/ SchedArm
    \/ SchedRunPending
    \/ SchedJobDone
    \/ SchedSleep
    \/ RunTakes
    \/ CbDump
    \/ CbCompress
    \/ CbUpload
    \/ CbRetainLocal
    \/ CbRetainRemote

SpecSched == InitSched /\ [][NextSched]_vars

(***************************************************************************)
(* restore_backup beside create_backup: the operator runs the restore      *)
(* command in a process of its own while a create_backup is in progress.   *)
(***************************************************************************)
\* restore_backup(file) called while create_backup is between two steps
RestoreDuring ==
    /\ pc # "idle"
    /\ nRestores < MaxRestores
    /\ nRestores' = nRestores + 1
    /\ \E ref \in {<<"path", n>> : n \in DOMAIN local},
          fault \in {"none", "psql"} :
         LET o == RestoreBackup(ref, <<>>, fault, now)
         IN  /\ local' = o.files
             /\ rs' = o.rs
    /\ ev' = "restore"
    /\ UNCHANGED <<cfg, now, remote, pc, run, nRuns, nTicks, listing, latest, sched, op>>

InitConc ==
    /\ cfg \in {c \in Configs : c.lret = BaseRetention /\ c.gdrive = "off"}
    /\ now = 0
    /\ local = InitLocal
    /\ remote = InitRemote
    /\ pc = "idle"
    /\ run = NoRun
    /\ rs = NoRestore
    /\ ev = "init"
    /\ nRuns = 0
    /\ nTicks = 0
    /\ nRestores = 0
    /\ listing = <<>>
    /\ latest = NoPath
    /\ sched = NoSched
    /\ op = NoOp

NextConc ==
    \/ CbStart
    \/ CbDump
    \/ CbOpenOutput
    \/ CbCompress
    \/ CbRetainLocal
    \/ RestoreDuring
    \/ RestoreFile

SpecConc == InitConc /\ [][NextConc]_vars

(***************************************************************************)
(* get_latest_backup on its own: a listing of the folder, in the order the *)
(* remote client returns it, and one call.                                 *)
(***************************************************************************)
LatestTitles == {<<stem, ext>> : stem \in 1 .. 2, ext \in TemplateExts}

LatestFiles ==
    {RemoteFile(t, m, File(m, "gzip", 0, NoPath)) : t \in LatestTitles, m \in 1 .. 2}

Listings == UNION {[1 .. n -> LatestFiles] : n \in 0 .. MaxListing}

Pending == <<"pending">>

InitLatest ==
    /\ cfg \in {c \in Configs : c.compression = "gzip" /\ c.lret = BaseRetention
                                /\ c.gret.unit = "days"}
    /\ now = 0
    /\ local = InitLocal
    /\ remote = {}
    /\ pc = "idle"
    /\ run = NoRun
    /\ rs = NoRestore
    /\ ev = "init"
    /\ nRuns = 0
    /\ nTicks = 0
    /\ nRestores = 0
    /\ listing \in Listings
    /\ latest = Pending
    /\ sched = NoSched
    /\ op = NoOp

GetLatest ==
    /\ latest = Pending
    /\ GdriveManager
    /\ \E folderOk \in BOOLEAN :
         /\ latest' = GetLatestBackup(DriveReady, folderOk, listing)
         /\ ev' = IF folderOk THEN "latest" ELSE "latest_nofolder"
    /\ UNCHANGED <<cfg, now, local, remote, pc, run, rs, nRuns, nTicks, nRestores, listing,
                   sched, op>>

NextLatest == GetLatest

SpecLatest == InitLatest /\ [][NextLatest]_vars

(***************************************************************************)
(* restore_backup on its own: a backup directory and a Drive folder with   *)
(* any of a few files, and restore_backup called on them.                  *)
(***************************************************************************)
GzName == <<1, "sql.gz">>
ZipName == <<1, "sql.zip">>
RawName == <<1, "sql">>

\* the content of a file of the directory, by what it holds
Content(kind) ==
    IF kind = "zip" THEN File(0, "zip", 1, RawName) ELSE File(0, kind, 1, NoPath)

\* the directory with ManualSql and ManualZip and, as chosen, a file named
\* .sql.gz (a gzip stream, a zip archive or a truncated file), a file named
\* .sql.zip (a zip archive or a gzip stream) and the raw file beside them
Directory(gz, zip, raw) ==
    LET names == {ManualSql, ManualZip}
                 \cup (IF gz # "absent" THEN {GzName} ELSE {})
                 \cup (IF zip # "absent" THEN {ZipName} ELSE {})
                 \cup (IF raw THEN {RawName} ELSE {})
    IN  [n \in names |->
            IF n = GzName THEN Content(gz)
            ELSE IF n = ZipName THEN Content(zip)
            ELSE IF n = RawName THEN Content("raw")
            ELSE InitLocal[n]]

Directories ==
    {Directory(gz, zip, raw) : gz \in {"absent", "gzip", "zip", "partial"},
                               zip \in {"absent", "zip", "gzip"}, raw \in BOOLEAN}

FolderFiles ==
    {RemoteFile(<<stem, "sql.gz">>, m, File(m, "gzip", stem, NoPath)) :
        stem \in 1 .. 2, m \in 0 .. 1}
    \cup {RemoteFile(<<2, "sql.zip">>, 2, File(2, "zip", 2, <<2, "sql">>)),
          RemoteFile(<<2, "sql.gz">>, 1, File(1, "zip", 2, <<2, "sql">>))}

Folders == {F \in SUBSET FolderFiles : \E f, g \in FolderFiles : F \subseteq {f, g}}

InitRestore ==
    /\ cfg \in {c \in Configs : c.compression = "gzip" /\ c.lret = BaseRetention
                                /\ c.gret = [unit |-> "days", value |-> 1]}
    /\ now = 1
    /\ local \in Directories
    /\ remote \in (IF DriveReady THEN Folders ELSE {{}})
    /\ pc = "idle"
    /\ run = NoRun
    /\ rs = NoRestore
    /\ ev = "init"
    /\ nRuns = 0
    /\ nTicks = 0
    /\ nRestores = 0
    /\ listing = <<>>
    /\ latest = NoPath
    /\ sched = NoSched
    /\ op = NoOp

NextRestore == RestoreLatest \/ RestoreFile

SpecRestore == InitRestore /\ [][NextRestore]_vars

(***************************************************************************)
(* The operations of the remote tier on their own: a GoogleDriveManager    *)
(* whose drive is None or usable, a folder with any of a few files, and    *)
(* calls of get_folder, upload_file, download_file, get_latest_backup and   *)
(* _cleanup_gdrive_backups, one after the other.  op describes the call    *)
(* just returned: its result, whether the remote client was called, and    *)
(* the local directory and the folder before it.  main() builds the        *)
(* manager a second time under --enable-gdrive, before the first call.     *)
(***************************************************************************)
OpDone(name, ok, called, value) ==
    /\ op' = [op EXCEPT !.name = name, !.n = @ + 1, !.ok = ok, !.called = called,
                         !.value = value, !.before = <<local, remote>>]
    /\ ev' = "op"
    /\ UNCHANGED <<cfg, now, pc, run, rs, nRuns, nTicks, nRestores, listing, latest, sched>>

\* main(): --enable-gdrive of start and run-once assigns a new
\* GoogleDriveManager, whose _initialize_drive succeeds or fails anew.
MainEnableGdrive ==
    /\ op.n = 0 /\ ~op.flag
    /\ \E outcome \in {"ok", "noinit"} :
         /\ cfg' = [cfg EXCEPT !.gdrive = outcome]
         /\ op' = [op EXCEPT !.flag = TRUE,
                              !.init_failed = @ \/ outcome = "noinit"]
    /\ ev' = "enable_gdrive"
    /\ UNCHANGED <<now, local, remote, pc, run, rs, nRuns, nTicks, nRestores, listing,
                   latest, sched>>

DriveGetFolder ==
    /\ GdriveManager /\ op.n < MaxOps
    /\ \E callOk \in BOOLEAN :
         LET g == GetFolder(DriveReady, callOk)
         IN  OpDone("get_folder", g.folder, g.called, NoPath)
    /\ UNCHANGED <<local, remote>>

DriveUpload ==
    /\ GdriveManager /\ op.n < MaxOps
    /\ \E n \in DOMAIN local, callOk \in BOOLEAN :
         LET u == UploadFile(remote, n, local[n], DriveReady, callOk, now)
         IN  /\ remote' = u.files
             /\ OpDone("upload_file", u.ok, DriveReady /\ GetFolder(DriveReady, callOk).called,
                        NoPath)
    /\ UNCHANGED local

DriveDownload ==
    /\ GdriveManager /\ op.n < MaxOps
    /\ \E title \in {f.title : f \in remote} \cup {MissingName},
          file_list \in Orders(remote), callOk \in BOOLEAN :
         LET d == DownloadFile(title, local, file_list, DriveReady, callOk, now)
         IN  /\ local' = d.files
             /\ OpDone("download_file", d.path # NoPath,
                        DriveReady /\ GetFolder(DriveReady, callOk).called, d.path)
    /\ UNCHANGED remote

DriveGetLatest ==
    /\ GdriveManager /\ op.n < MaxOps
    /\ \E file_list \in Orders(remote), callOk \in BOOLEAN :
         LET t == GetLatestBackup(DriveReady, GetFolder(DriveReady, callOk).folder, file_list)
         IN  OpDone("get_latest_backup", t # NoPath,
                    DriveReady /\ GetFolder(DriveReady, callOk).called, t)
    /\ UNCHANGED <<local, remote>>

DriveCleanup ==
    /\ GdriveManager /\ op.n < MaxOps
    /\ \E callOk \in BOOLEAN,
          order \in Orders(RemoteCandidates(remote)),
          bad \in AtMostOne(ExpiredKeys(RemoteCandidates(remote), GdriveRetention, now)) :
         LET c == CleanupGdriveBackups(remote, GdriveRetention, now, DriveReady, callOk,
                                       order, bad)
         IN  /\ remote' = c.files
             /\ OpDone("cleanup", c.sweep.status = "done",
                        ValidUnit(GdriveRetention) /\ GetFolder(DriveReady, callOk).called,
                        NoPath)
    /\ UNCHANGED local

InitDrive ==
    /\ cfg \in {c \in Configs : c.compression = "gzip" /\ c.lret = BaseRetention}
    /\ now = Timedelta([unit |-> "minutes", value |-> 1]) + 1
    /\ local = InitLocal
    /\ remote \in Folders
    /\ pc = "idle"
    /\ run = NoRun
    /\ rs = NoRestore
    /\ ev = "init"
    /\ nRuns = 0
    /\ nTicks = 0
    /\ nRestores = 0
    /\ listing = <<>>
    /\ latest = NoPath
    /\ sched = NoSched
    /\ op = [NoOp EXCEPT !.init_failed = cfg.gdrive = "noinit"]

NextDrive ==
    \/ MainEnableGdrive
    \/ DriveGetFolder
    \/ DriveUpload
    \/ DriveDownload
    \/ DriveGetLatest
    \/ DriveCleanup

SpecDrive == InitDrive /\ [][NextDrive]_vars

(***************************************************************************)
(* Properties.  run describes the create_backup call in progress or just   *)
(* returned (ev = "cb_return"), rs the restore_backup call just returned   *)
(* (ev = "restore"); the other variables are the state right after it.     *)
(***************************************************************************)
\* a compressed backup: a name of the backup template that holds a whole
\* archive
IsArtifactFile(name, f) ==
    name[2] \in TemplateExts /\ f.fmt \in {"gzip", "zip"}

\* C1: when the compression step of a run fails, no file with the run's
\* backup name is in the local directory when create_backup returns, and
\* create_backup returns no artifact.
C1_NoPartialArtifact ==
    (ev = "cb_return" /\ run.comp \in {"unsupported", "open_fail", "write_fail"})
        => (run.name \notin DOMAIN local /\ run.result = NoPath)

\* C2: when restore_backup cannot resolve the reference to an existing local
\* file, it returns its failure result (it does not raise) and the restore
\* command is not invoked.
C2_NotFoundIsReturned ==
    (ev = "restore" /\ ~rs.had) => (rs.result = "False" /\ rs.cmd = NoPath)

\* where restore_backup puts the raw file of a compressed artifact
TempLocation(path, f) ==
    IF Suffix(path) = "gz" THEN WithSuffixRemoved(path)
    ELSE IF f.fmt = "zip" /\ f.entry # NoPath THEN f.entry
    ELSE NoPath

\* C3: after restore_backup on a compressed artifact (.gz or .zip), on every
\* exit path, the decompressed temporary raw file is not on disk and the
\* artifact restored from is still there, as it was.
C3_TempRemovedArtifactKept ==
    (ev = "restore" /\ rs.had /\ Suffix(rs.path) \in {"gz", "zip"})
        => /\ TempLocation(rs.path, rs.file) \notin DOMAIN local
           /\ rs.temp \notin DOMAIN local
           /\ rs.path \in DOMAIN local
           /\ local[rs.path] = rs.file

\* the restore command failed on the raw file extracted from a zip artifact
C3_Witness ==
    /\ ev = "restore" /\ rs.had /\ Suffix(rs.path) = "zip"
    /\ rs.cmd = TempLocation(rs.path, rs.file) /\ rs.cmd # NoPath
    /\ rs.result = "False"

\* C4: a reference to a raw file (suffix neither .gz nor .zip) is passed
\* through: the file is the input of the restore command and it is still on
\* disk, unmodified, after restore_backup returns.
C4_RawFilePassedThrough ==
    (ev = "restore" /\ rs.had /\ Suffix(rs.path) \notin {"gz", "zip"})
        => /\ rs.cmd = rs.path
           /\ rs.path \in DOMAIN local
           /\ local[rs.path] = rs.file

\* every expired artifact of the sweep whose delete does not fail was deleted
BestEffort(s) ==
    s.status \in {"done", "aborted"}
        => \A x \in s.cand :
             (x.mtime < s.cutoff /\ x.key \notin s.bad) => x.key \in s.deleted

\* C5: a sweep is best-effort per artifact: when the delete of one expired
\* artifact fails, every other expired artifact of the tier that can be
\* deleted is deleted in the same sweep, locally and remotely.
C5_SweepBestEffort ==
    (cfg.lret.value > 0 /\ cfg.gret.value > 0)
        => (BestEffort(run.lsweep) /\ BestEffort(run.rsweep))

\* C6: after a successful create_backup with valid windows and no failed
\* delete, no earlier artifact older than its tier's cutoff is left in an
\* enabled tier, and the artifact just created, if it is not older than the
\* cutoff itself, is left; for names ending sql.gz and sql.zip alike.
C6_ExpiredSweptNewKept ==
    (/\ ev = "cb_return" /\ run.result # NoPath
     /\ ValidUnit(cfg.lret) /\ cfg.lret.value > 0
     /\ ValidUnit(cfg.gret) /\ cfg.gret.value > 0
     /\ run.lsweep.status = "done"
     /\ (DriveReady => run.rsweep.status = "done"))
        => /\ \A n \in DOMAIN local :
                (IsArtifactFile(n, local[n]) /\ n # run.name)
                    => ~(local[n].mtime < now - Timedelta(cfg.lret))
           /\ (~(run.at < now - Timedelta(cfg.lret)) => run.name \in DOMAIN local)
           /\ DriveReady =>
                \A f \in remote :
                    (IsArtifactFile(f.title, f) /\ ~(f.title = run.name /\ f.mtime = run.at))
                        => ~(f.mtime < now - Timedelta(cfg.gret))

\* every artifact the sweep deleted was older than clock minus window
OnlyExpired(s, retention) ==
    (s.status \in {"done", "aborted"} /\ ValidUnit(retention))
        => \A x \in s.cand :
             x.key \in s.deleted => x.mtime < now - Timedelta(retention)

\* C7: a sweep deletes an artifact only if its modification time is strictly
\* earlier than the cutoff, the clock minus the tier's window, locally and
\* remotely.
C7_OnlyExpiredDeleted ==
    OnlyExpired(run.lsweep, cfg.lret) /\ OnlyExpired(run.rsweep, cfg.gret)

\* C8: in a successful run with the remote tier enabled and usable, the
\* remote sweep is performed with the remote window, whatever happened to
\* the local sweep.
C8_RemoteSweepIndependent ==
    (ev = "cb_return" /\ run.result # NoPath /\ DriveReady /\ ValidUnit(cfg.gret))
        => run.rsweep.status # "none"

\* the order of file names
ExtRank(ext) == IF ext = "sql" THEN 0 ELSE IF ext = "sql.gz" THEN 1 ELSE 2

LexLeq(a, b) == a[1] < b[1] \/ (a[1] = b[1] /\ ExtRank(a[2]) <= ExtRank(b[2]))

\* the places of the listing that hold a newest file with the backup suffix
NewestAt(file_list) ==
    {i \in 1 .. Len(file_list) :
        /\ EndsWithSqlGz(file_list[i].title)
        /\ \A j \in 1 .. Len(file_list) :
             EndsWithSqlGz(file_list[j].title) => file_list[j].mtime <= file_list[i].mtime}

FirstListedNewest(file_list) ==
    IF NewestAt(file_list) = {} THEN NoPath
    ELSE file_list[CHOOSE i \in NewestAt(file_list) :
                       \A j \in NewestAt(file_list) : i <= j].title

LexFirstNewest(file_list) ==
    IF NewestAt(file_list) = {} THEN NoPath
    ELSE file_list[CHOOSE i \in NewestAt(file_list) :
                       \A j \in NewestAt(file_list) :
                           LexLeq(file_list[i].title, file_list[j].title)].title

\* C9, as stated: get_latest_backup returns the newest file with the backup
\* suffix and, among several newest, the lexically first name, whatever the
\* order of the listing.
C9_LexicalTieBreak ==
    (ev = "latest" /\ DriveReady) => latest = LexFirstNewest(listing)

\* C9, amended: get_latest_backup returns the title of a file with the
\* greatest modifiedDate among the files whose title ends with .sql.gz; among
\* several of them, the one the listing holds first; nothing without a
\* drive, without the folder or without such a file.
C9_FirstListedOfNewest ==
    /\ (ev = "latest" /\ DriveReady) => latest = FirstListedNewest(listing)
    /\ ((ev = "latest" /\ ~DriveReady) \/ ev = "latest_nofolder") => latest = NoPath

\* two newest files of different names, the lexically later one listed first
C9_Witness ==
    /\ ev = "latest" /\ DriveReady
    /\ latest # NoPath
    /\ latest = FirstListedNewest(listing)
    /\ latest # LexFirstNewest(listing)

SomeBackupIn(files) == \E f \in files : EndsWithSqlGz(f.title)

\* C10, as stated: with an empty reference (None or the empty string) and
\* the remote tier enabled, restore_backup resolves to the newest remote
\* artifact, fetches it into the local directory, decompresses it and gives
\* the decompressed path to the restore command.
C10_EmptyReferenceUsesLatest ==
    (/\ ev = "restore" /\ rs.ref \in {<<"none">>, <<"empty">>}
     /\ DriveReady /\ SomeBackupIn(remote) /\ rs.fault = "none")
        => /\ rs.consulted
           /\ rs.title = FirstListedNewest(rs.list)
           /\ rs.path = rs.title
           /\ (rs.had /\ rs.file.fmt = "gzip") => rs.cmd = WithSuffixRemoved(rs.title)

\* C10, amended: with no reference (None) and the remote tier enabled,
\* restore_backup asks the remote tier for its newest .sql.gz artifact,
\* fetches the first listed file of that title into the local directory and,
\* when fetch and decompression succeed, gives the decompressed path to the
\* restore command; with any other reference, the empty string included,
\* the remote tier is not consulted and the restore command is invoked only
\* on an existing local path.
C10_LatestOnlyWithoutReference ==
    ev = "restore" =>
        /\ (rs.ref = <<"none">> /\ GdriveManager)
             => /\ rs.consulted
                /\ rs.title = (IF DriveReady /\ rs.fault # "folder"
                               THEN FirstListedNewest(rs.list) ELSE NoPath)
                /\ rs.path \in {NoPath, rs.title}
                /\ (rs.title # NoPath /\ DriveReady /\ rs.fault \notin {"folder", "download"})
                     => /\ rs.path = rs.title /\ rs.had
                        /\ \E f \in remote :
                             /\ f.title = rs.title
                             /\ rs.file = File(now, f.fmt, f.data, f.entry)
                        /\ (rs.file.fmt = "gzip" /\ rs.fault = "none")
                             => /\ rs.cmd = WithSuffixRemoved(rs.title)
                                /\ rs.cmdFile.data = rs.file.data
                                /\ rs.result = "True"
                /\ rs.cmd # NoPath => rs.cmd = WithSuffixRemoved(rs.title)
        /\ (rs.ref # <<"none">>)
             => /\ ~rs.consulted
                /\ rs.title = NoPath
                /\ rs.cmd # NoPath => (rs.ref[1] = "path" /\ rs.path = rs.ref[2] /\ rs.had)

\* the newest remote artifact was fetched, decompressed and replayed
C10_Witness ==
    /\ ev = "restore" /\ rs.ref = <<"none">> /\ rs.consulted
    /\ rs.title # NoPath /\ rs.path = rs.title
    /\ rs.cmd = WithSuffixRemoved(rs.title)
    /\ rs.result = "True"
    /\ \E f \in remote : EndsWithSqlGz(f.title) /\ f.title # rs.title

\* C16: _run_command never raises past its boundary: whatever the external
\* process does (exit status zero, another exit status, failure to start),
\* the call returns a pair whose first member tells whether the process
\* succeeded.
C16_RunCommandNeverRaises ==
    run.cmd.outcome # "none"
        => (~run.cmd.raised /\ (run.cmd.ok <=> run.cmd.outcome = "exit0"))

\* the remote tier is enabled and it failed in the run: no drive, a failed
\* upload or a remote sweep that did not run to its end
RemoteTierFailed ==
    /\ GdriveManager
    /\ \/ run.upload = "fail"
       \/ run.rsweep.status \in {"raised", "nofolder", "aborted"}

\* C11: a failure of the remote tier never fails a backup run: when the
\* remote tier is enabled and its initialization failed, or the upload
\* fails, or the remote sweep fails, create_backup returns the path of the
\* local artifact, the artifact is in the local directory and no exception
\* reaches the caller.
C11_RemoteFailureKeepsRun ==
    (ev = "cb_return" /\ RemoteTierFailed)
        => /\ run.result = run.name
           /\ run.name \in DOMAIN local
           /\ ~run.raised

\* C12: a retention window with an unknown unit fails the cleanup only:
\* a run whose local or remote unit is unknown and whose compression
\* succeeded returns the artifact path, the new artifact is on disk, the
\* sweep with the unknown unit deletes nothing and no unit is put in its
\* place.
C12_UnknownUnitFailsCleanupOnly ==
    (/\ ev = "cb_return" /\ run.comp = "ok"
     /\ (~ValidUnit(cfg.lret) \/ (GdriveManager /\ ~ValidUnit(cfg.gret))))
        => /\ run.result = run.name
           /\ run.name \in DOMAIN local
           /\ ~ValidUnit(cfg.lret)
                => run.lsweep.status = "raised" /\ run.lsweep.deleted = {}
           /\ ~ValidUnit(cfg.gret)
                => run.rsweep.status \in {"none", "raised"} /\ run.rsweep.deleted = {}

NoSweepYet == run.lsweep.status = "none" /\ run.rsweep.status = "none"

\* a file of the run: it has the run's backup name and holds the run's dump
OfThisRun(name, f) == name = run.name /\ f.data = run.id

\* C17: every run goes Idle, Dumping, Compressing, Distributing, Retaining,
\* Done or Failed: the compression starts only after a successful dump, the
\* upload only when the compressed artifact is in the local directory, the
\* sweep only after the distribution step, and a run whose dump or
\* compression failed returns nothing, without any upload or sweep.
C17_StepOrder ==
    /\ pc = "dumping" => run.cmd.outcome = "none" /\ run.comp = "none"
    /\ pc = "compressing"
         => /\ run.cmd.outcome = "exit0" /\ run.sql \in DOMAIN local
            /\ run.comp = "none" /\ run.upload = "none" /\ NoSweepYet
    /\ pc = "distributing"
         => /\ run.cmd.outcome = "exit0" /\ run.comp = "ok"
            /\ run.name \in DOMAIN local /\ OfThisRun(run.name, local[run.name])
            /\ run.upload = "none" /\ NoSweepYet
    /\ pc = "retaining"
         => /\ run.comp = "ok" /\ (GdriveManager <=> run.upload # "none")
            /\ NoSweepYet
    /\ pc = "retaining_remote"
         => /\ run.comp = "ok" /\ run.upload # "none"
            /\ run.lsweep.status # "none" /\ run.rsweep.status = "none"
    /\ (ev = "cb_return" /\ (run.cmd.outcome # "exit0" \/ run.comp # "ok"))
         => /\ run.result = NoPath /\ run.upload = "none" /\ NoSweepYet
            /\ \A f \in remote : ~OfThisRun(f.title, f)
    /\ (ev = "cb_return" /\ run.result # NoPath)
         => /\ run.cmd.outcome = "exit0" /\ run.comp = "ok"
            /\ (GdriveManager <=> run.upload # "none")

\* a second run went through every step: dump, compression, upload, local
\* sweep and remote sweep
C17_Witness ==
    /\ ev = "cb_return" /\ run.id = 2 /\ run.result = run.name
    /\ run.upload = "ok"
    /\ run.lsweep.status = "done" /\ run.rsweep.status = "done"

\* C19: the raw dump file of a run is not in the local directory when
\* create_backup has returned or raised, on every exit path.
C19_RawDumpRemoved ==
    ev \in {"cb_return", "cb_raised"} => run.sql \notin DOMAIN local

\* the dump was written and the compression failed after it
C19_Witness ==
    /\ ev = "cb_return" /\ run.cmd.outcome = "exit0" /\ run.comp = "write_fail"
    /\ run.sql \notin DOMAIN local

\* C20: when the dump command fails, create_backup returns no artifact, no
\* compressed file of that run is in the local directory and nothing of the
\* run is stored in the remote tier.
C20_DumpFailureLeavesNothing ==
    (ev = "cb_return" /\ run.cmd.outcome \in {"nonzero", "nostart"})
        => /\ run.result = NoPath
           /\ run.name \in DOMAIN local => ~OfThisRun(run.name, local[run.name])
           /\ \A f \in remote : ~OfThisRun(f.title, f)
           /\ run.upload = "none"

\* the dump of a second run failed in the second of an earlier run, whose
\* artifact has the same name
C20_Witness ==
    /\ ev = "cb_return" /\ run.cmd.outcome = "nonzero" /\ DriveReady
    /\ run.result = NoPath
    /\ run.name \in DOMAIN local

\* C13: in the scheduler loop at most one create_backup is active: a run is
\* in progress only inside the scheduler's call of it, run_pending never
\* starts the job while a run is in progress, and the ticks that fall inside
\* a run are skipped: the job is next due one period after the run has
\* returned, so no run follows a long run at once.
C13_SingleRunNoBacklog ==
    /\ ~sched.overlap
    /\ pc # "idle" => sched.at \in {"first", "job"}
    /\ sched.at \in {"loop", "sleep"}
         => sched.next_run >= sched.last_done + Period(sched)
    /\ sched.at = "job" => sched.started >= sched.last_done + Period(sched)

\* a scheduled run took longer than two periods and has returned
C13_Witness ==
    /\ sched.at = "sleep" /\ ev = "sched_done"
    /\ sched.last_done - sched.started > 2 * Period(sched)
    /\ sched.next_run = sched.last_done + Period(sched)

\* C14: the scheduler survives every failed run: with a valid cadence the
\* scheduler's thread is never out of start_scheduler or out of its loop,
\* whatever the runs of create_backup did.
C14_SchedulerSurvives ==
    ValidUnit(sched) => sched.at \notin {"crashed", "stopped"}

\* C15: restore_backup is serialized against a running create_backup: it
\* never reads a local artifact while create_backup is in its compressing
\* step, writing that artifact.
C15_RestoreSerialized ==
    (ev = "restore" /\ rs.had) => ~(pc = "writing" /\ rs.path = run.name)

\* C18: once an initialization of the remote tier has failed in the
\* process, every remote operation (get_folder, upload_file, download_file,
\* get_latest_backup and the remote sweep) returns its failure result,
\* makes no call on the remote client and changes neither the folder nor
\* the local directory.
C18_FailFastAfterInitFailure ==
    (op.init_failed /\ op.name # "none")
        => /\ ~op.ok /\ op.value = NoPath
           /\ ~op.called
           /\ <<local, remote>> = op.before

\* a window of the retention policy: a known unit and a positive magnitude
ValidWindow(retention) == ValidUnit(retention) /\ retention.value > 0

\* the sweep did not run: it was not reached or it was refused
SweepRefused(s) == s.status \in {"none", "raised"} /\ s.deleted = {}

\* C22: a retention window whose magnitude is zero or negative, or whose
\* unit is not minutes, hours or days, is rejected: no sweep runs with such
\* a window, locally or remotely, so nothing is deleted under it.
C22_InvalidWindowRejected ==
    /\ ~ValidWindow(cfg.lret) => SweepRefused(run.lsweep)
    /\ ~ValidWindow(cfg.gret) => SweepRefused(run.rsweep)

\* C23: whenever create_backup returns an artifact path, the file the run
\* has written is at that path in the local directory at that moment,
\* whatever the configured retention windows are.
C23_ReturnedArtifactExists ==
    (ev = "cb_return" /\ run.result # NoPath)
        => /\ run.result \in DOMAIN local
           /\ OfThisRun(run.result, local[run.result])
           /\ run.name \notin run.lsweep.deleted

\* the format restore_backup reads from the suffix of a path
InferredFormat(path) ==
    IF Suffix(path) = "gz" THEN "gzip" ELSE IF Suffix(path) = "zip" THEN "zip" ELSE "raw"

\* C21: round trip: restore_backup of an artifact that create_backup wrote,
\* with gzip or with zip, infers from the name the format it was written
\* in, decompresses it to the content of the raw dump it was made from and
\* invokes the restore command on that file.
C21_RoundTrip ==
    (/\ ev = "restore" /\ rs.had /\ rs.fault = "none"
     /\ IsArtifactFile(rs.path, rs.file) /\ rs.file.data > 0)
        => /\ InferredFormat(rs.path) = rs.file.fmt
           /\ rs.cmd # NoPath
           /\ rs.cmdFile.fmt = "raw" /\ rs.cmdFile.data = rs.file.data
           /\ rs.result = "True"

\* the artifacts the tiers held when the run began are there, as they were
EarlierArtifactsKept ==
    /\ \A n \in DOMAIN run.before.local :
          IsArtifactFile(n, run.before.local[n])
              => n \in DOMAIN local /\ local[n] = run.before.local[n]
    /\ \A f \in run.before.remote : IsArtifactFile(f.title, f) => f \in remote

\* C24: a create_backup that fails (its dump or its compression fails, or
\* it raises before the artifact is on disk) runs no sweep and leaves every
\* artifact that was in the local and in the remote tier before it.
C24_FailedRunKeepsArtifacts ==
    ((ev = "cb_return" /\ run.result = NoPath) \/ ev = "cb_raised")
        => NoSweepYet /\ EarlierArtifactsKept

====
